---- MODULE Spec2Model ----
(***************************************************************************)
(* Chord construction, inference, formatting and parsing of the staff      *)
(* crate (src/chord/mod.rs, src/interval.rs).                              *)
(*                                                                         *)
(* A MidiNote is its byte, an Interval its semitone count, an Option is    *)
(* the empty sequence (None) or a one-element sequence (Some), and an      *)
(* IntervalSet is the ascending sequence of its distinct elements.         *)
(* A string is the sequence of its characters; a rendered chord symbol is  *)
(* the sequence of the pieces Display writes.                              *)
(***************************************************************************)
EXTENDS Integers, Sequences, FiniteSets, TLC

VARIABLES pc, input, outcome, chord, calls, out

vars == <<pc, input, outcome, chord, calls, out>>

(***************************************************************************)
(* Bounds of the model.                                                    *)
(***************************************************************************)
\* longest suffix of a parsed string after the letter and the accidental
MaxSuffix == 3
\* longest note sequence given to from_midi
MaxNotes == 3
\* from_midi draws its notes from C4 - Span .. C4 + Span
Span == 8
\* declared roots are C4 .. C4 + RootShift
RootShift == 1
\* most builder calls chained on one chord
MaxBuild == 2
\* builder bass notes are C4 - BassSpan .. C4 + BassSpan
BassSpan == 1

(***************************************************************************)
(* Interval (src/interval.rs)                                              *)
(***************************************************************************)
UNISON == 0
MINOR_SECOND == 1
MAJOR_SECOND == 2
MINOR_THIRD == 3
MAJOR_THIRD == 4
PERFECT_FOURTH == 5
TRITONE == 6
PERFECT_FIFTH == 7
MINOR_SIXTH == 8
MAJOR_SIXTH == 9
MINOR_SEVENTH == 10
MAJOR_SEVENTH == 11
MAJOR_NINTH == 14
THIRTEENTH == 21

NamedIntervals ==
    { UNISON, MINOR_SECOND, MAJOR_SECOND, MINOR_THIRD, MAJOR_THIRD,
      PERFECT_FOURTH, TRITONE, PERFECT_FIFTH, MINOR_SIXTH, MAJOR_SIXTH,
      MINOR_SEVENTH, MAJOR_SEVENTH, MAJOR_NINTH, THIRTEENTH }

(***************************************************************************)
(* Option                                                                  *)
(***************************************************************************)
None == <<>>

Some(x) == <<x>>

unwrap_or(o, d) == IF o = None THEN d ELSE o[1]

(***************************************************************************)
(* IntervalSet: ascending, no duplicates.                                  *)
(***************************************************************************)
EmptySet == <<>>

contains(set, i) == \E k \in 1..Len(set) : set[k] = i

\* push: no-op when present, otherwise inserted at its place in the order
push(set, i) ==
    IF contains(set, i) THEN set
    ELSE LET below == SelectSeq(set, LAMBDA x : x < i)
             above == SelectSeq(set, LAMBDA x : x > i)
         IN  below \o <<i>> \o above

RECURSIVE extend(_, _)
extend(set, is) ==
    IF is = <<>> THEN set ELSE extend(push(set, Head(is)), Tail(is))

\* collect: an IntervalSet from a sequence of intervals
collect(is) == extend(EmptySet, is)

(***************************************************************************)
(* MidiNote, Pitch, Natural, Note                                          *)
(***************************************************************************)
\* Octave::FOUR as the octave number
FOUR == 4

\* MidiNote::new(pitch, octave): octave -1 starts at byte 0
MidiNew(pitch, octave) == (octave + 1) * 12 + pitch

\* MidiNote::from_byte
from_byte(b) == b

\* MidiNote + Interval
MidiAdd(n, i) == n + i

\* MidiNote - MidiNote, for a left operand not below the right one
MidiSub(a, b) == a - b

\* MidiNote::abs_diff
abs_diff(a, b) == IF a >= b THEN a - b ELSE b - a

NaturalLetters == {"A", "B", "C", "D", "E", "F", "G"}

\* Natural -> Pitch
NaturalPitch(l) ==
    CASE l = "C" -> 0 [] l = "D" -> 2 [] l = "E" -> 4 [] l = "F" -> 5
      [] l = "G" -> 7 [] l = "A" -> 9 [] l = "B" -> 11

\* Note::flat / double_flat / sharp / double_sharp, converted into a Pitch
NotePitch(l, shift) == (NaturalPitch(l) + shift + 12) % 12

PitchNames == <<"C", "C#", "D", "D#", "E", "F", "F#", "G", "G#", "A", "A#", "B">>

\* Display of a MidiNote: pitch name, then octave number
NoteName(n) == PitchNames[(n % 12) + 1] \o ToString((n \div 12) - 1)

C4 == MidiNew(0, FOUR)

(***************************************************************************)
(* Chord (src/chord/mod.rs)                                                *)
(***************************************************************************)
Chord(r, b, inv, is) ==
    [root |-> r, bass |-> b, is_inversion |-> inv, intervals |-> is]

new(r) == Chord(r, None, FALSE, EmptySet)

bass(c, bass_note) == [c EXCEPT !.bass = Some(bass_note)]

inversion(c, bass_note) == bass([c EXCEPT !.is_inversion = TRUE], bass_note)

interval(c, i) == [c EXCEPT !.intervals = push(c.intervals, i)]

root(c) == interval(c, UNISON)

major(r) == interval(interval(root(new(r)), MAJOR_THIRD), PERFECT_FIFTH)

minor(r) == interval(interval(root(new(r)), MINOR_THIRD), PERFECT_FIFTH)

seventh(r) == interval(major(r), MINOR_SEVENTH)

major_seventh(c) == interval(c, MAJOR_SEVENTH)

minor_seventh(r) == interval(minor(r), MINOR_SEVENTH)

major_ninth(c) == interval(c, MAJOR_NINTH)

half_diminished(r) ==
    interval(interval(interval(root(new(r)), MINOR_THIRD), TRITONE), MINOR_SEVENTH)

\* the intervals of the notes after the first, each measured from `lowest`
Distances(notes, lowest) ==
    [k \in 1..(Len(notes) - 1) |-> MidiSub(notes[k + 1], lowest)]

\* from_midi with every interval measured from the declared root
from_midi_from_root(r, notes) ==
    IF notes = <<>> THEN None
    ELSE LET bass_note == Head(notes)
             b == IF bass_note # r THEN Some(bass_note) ELSE None
         IN  Some(Chord(r, b, bass_note # r,
                        extend(push(EmptySet, UNISON),
                               [k \in 1..(Len(notes) - 1) |->
                                    abs_diff(notes[k + 1], r)])))

\* from_midi that records the bass and leaves the inversion flag unset
from_midi_no_flag(r, notes) ==
    IF notes = <<>> THEN None
    ELSE LET bass_note == Head(notes)
             b == IF bass_note # r THEN Some(bass_note) ELSE None
             lowest_note == unwrap_or(b, r)
         IN  Some(Chord(r, b, FALSE,
                        extend(push(EmptySet, UNISON),
                               Distances(notes, lowest_note))))

\* Option<Chord>: None for an empty sequence
from_midi(r, notes) ==
    IF notes = <<>> THEN None
    ELSE LET bass_note == Head(notes)
             is_inversion == bass_note # r
             b == IF bass_note # r THEN Some(bass_note) ELSE None
             lowest_note == unwrap_or(b, r)
         IN  Some(Chord(r, b, is_inversion,
                        extend(push(EmptySet, UNISON),
                               Distances(notes, lowest_note))))

\* intervals() that hands back the stored set as it is
intervals_stored(c) == c.intervals

\* the stored intervals re-anchored to the root
intervals(c) ==
    collect([k \in 1..Len(c.intervals) |->
                abs_diff(MidiAdd(unwrap_or(c.bass, c.root), c.intervals[k]),
                         c.root)])

\* MidiNotes / Iter: a base note and the intervals still to come
NoteIter(base, is) == [root |-> base, intervals |-> is]

midi_notes(c) == NoteIter(unwrap_or(c.bass, c.root), c.intervals)

\* into_iter that starts from the root whatever the bass
into_iter_root(c) == NoteIter(c.root, c.intervals)

into_iter(c) == NoteIter(unwrap_or(c.bass, c.root), c.intervals)

\* Iterator::next, repeated until the intervals are used up
RECURSIVE Drain(_)
Drain(it) ==
    IF it.intervals = <<>> THEN <<>>
    ELSE <<MidiAdd(it.root, Head(it.intervals))>>
         \o Drain([it EXCEPT !.intervals = Tail(it.intervals)])

from_iter(notes) ==
    LET r == IF notes = <<>> THEN from_byte(0) ELSE Head(notes)
        rest == IF notes = <<>> THEN <<>> ELSE Tail(notes)
    IN  from_midi(r, <<r>> \o rest)[1]

(***************************************************************************)
(* Display for Chord: the pieces written, in order.                        *)
(***************************************************************************)
\* fmt that decides "(no5)" from the perfect fifth alone
fmt_fifth_only(c) ==
    LET rel == intervals(c)
        quality == IF contains(rel, MINOR_THIRD) THEN <<"m">>
                   ELSE IF contains(rel, MAJOR_SECOND) THEN <<"sus2">>
                   ELSE IF contains(rel, PERFECT_FOURTH) THEN <<"sus4">>
                   ELSE <<>>
        has_fifth == contains(rel, PERFECT_FIFTH)
        fifth == IF contains(rel, TRITONE) THEN <<"b5">> ELSE <<>>
        seven == IF contains(rel, MINOR_SEVENTH) THEN <<"7">>
                 ELSE IF contains(rel, MAJOR_SEVENTH) THEN <<"maj7">>
                 ELSE <<>>
        slash == IF c.bass # None THEN <<"/", NoteName(c.bass[1])>> ELSE <<>>
        no_root == IF ~contains(rel, UNISON) THEN <<"(no root)">> ELSE <<>>
        no5 == IF ~has_fifth THEN <<"(no5)">> ELSE <<>>
    IN  <<NoteName(c.root)>> \o quality \o fifth \o seven \o slash \o no_root \o no5

fmt(c) ==
    LET rel == intervals(c)
        quality == IF contains(rel, MINOR_THIRD) THEN <<"m">>
                   ELSE IF contains(rel, MAJOR_SECOND) THEN <<"sus2">>
                   ELSE IF contains(rel, PERFECT_FOURTH) THEN <<"sus4">>
                   ELSE <<>>
        has_fifth == IF contains(rel, TRITONE) THEN TRUE
                     ELSE IF ~contains(rel, PERFECT_FIFTH) THEN FALSE
                     ELSE TRUE
        fifth == IF contains(rel, TRITONE) THEN <<"b5">> ELSE <<>>
        seven == IF contains(rel, MINOR_SEVENTH) THEN <<"7">>
                 ELSE IF contains(rel, MAJOR_SEVENTH) THEN <<"maj7">>
                 ELSE <<>>
        slash == IF c.bass # None THEN <<"/", NoteName(c.bass[1])>> ELSE <<>>
        no_root == IF ~contains(rel, UNISON) THEN <<"(no root)">> ELSE <<>>
        no5 == IF ~has_fifth THEN <<"(no5)">> ELSE <<>>
    IN  <<NoteName(c.root)>> \o quality \o fifth \o seven \o slash \o no_root \o no5

(***************************************************************************)
(* FromStr for Chord.  `pos` is the index of the character held in `next`; *)
(* the character iterator then stands just after it.                       *)
(***************************************************************************)
\* Option<char>: the character at index k, None past the end
CharAt(s, k) == IF k \in 1..Len(s) THEN Some(s[k]) ELSE None

Ok(c) == [tag |-> "Ok", chord |-> c]

\* unwrap() on None or Err, and todo!()
Panic == [tag |-> "panic", chord |-> new(from_byte(0))]

\* the accidental match that reads a doubled sign as a single one
Accidental_single(s) ==
    LET natural == s[1]
    IN  IF CharAt(s, 2) = Some("b")
        THEN [pitch |-> NotePitch(natural, -1), pos |-> 3]
        ELSE IF CharAt(s, 2) = Some("#")
        THEN [pitch |-> NotePitch(natural, 1), pos |-> 3]
        ELSE [pitch |-> NotePitch(natural, 0), pos |-> 2]

\* the root pitch and where `next` stands after the accidental match
Accidental(s) ==
    LET natural == s[1]
    IN  IF CharAt(s, 2) = Some("b")
        THEN IF CharAt(s, 3) = Some("b")
             THEN [pitch |-> NotePitch(natural, -2), pos |-> 4]
             ELSE [pitch |-> NotePitch(natural, -1), pos |-> 3]
        ELSE IF CharAt(s, 2) = Some("#")
        THEN IF CharAt(s, 3) = Some("#")
             THEN [pitch |-> NotePitch(natural, 2), pos |-> 4]
             ELSE [pitch |-> NotePitch(natural, 1), pos |-> 3]
        ELSE [pitch |-> NotePitch(natural, 0), pos |-> 2]

\* the base chord and where `next` stands after the quality match
Quality(s, pitch, pos) ==
    IF CharAt(s, pos) = Some("m")
    THEN [chord |-> minor(MidiNew(pitch, FOUR)), pos |-> pos + 1]
    ELSE [chord |-> major(MidiNew(pitch, FOUR)), pos |-> pos]

\* the modifier loop
RECURSIVE Modifiers(_, _, _)
Modifiers(s, pos, c) ==
    LET next == CharAt(s, pos)
    IN  IF next = None THEN Ok(c)
        ELSE IF next = Some("b")
        THEN IF CharAt(s, pos + 1) = None THEN Ok(c)
             ELSE IF CharAt(s, pos + 1) = Some("5")
             THEN Modifiers(s, pos + 2, interval(c, TRITONE))
             ELSE Panic
        ELSE IF next = Some("7")
        THEN Modifiers(s, pos + 1, interval(c, MINOR_SEVENTH))
        ELSE Panic

from_str(s) ==
    IF s = <<>> THEN Panic
    ELSE IF s[1] \notin NaturalLetters THEN Panic
    ELSE LET a == Accidental(s)
             q == Quality(s, a.pitch, a.pos)
         IN  Modifiers(s, q.pos, q.chord)

(***************************************************************************)
(* Inputs                                                                  *)
(***************************************************************************)
SeqsUpTo(S, n) == UNION {[1..k -> S] : k \in 0..n}

\* a first character that is no natural letter stands for every such one
FirstChars == NaturalLetters \cup {"H"}

Accidentals == {<<>>, <<"b">>, <<"b", "b">>, <<"#">>, <<"#", "#">>}

SuffixChars == {"m", "7", "b", "5", "#"}

StrInputs ==
    {<<>>} \cup {<<l>> \o a \o t : l \in FirstChars, a \in Accidentals,
                                  t \in SeqsUpTo(SuffixChars, MaxSuffix)}

ShortStrInputs == {s \in StrInputs : Len(s) <= 2}

Roots == C4..(C4 + RootShift)

\* the caller hands from_midi its notes lowest first
LowestFirst(notes) == \A k \in 1..Len(notes) : notes[k] >= notes[1]

NoteInputs == {ns \in SeqsUpTo((C4 - Span)..(C4 + Span), MaxNotes) : LowestFirst(ns)}

BassNotes == (C4 - BassSpan)..(C4 + BassSpan)

ShortNoteInputs == {ns \in SeqsUpTo(BassNotes, 2) : LowestFirst(ns)}

(***************************************************************************)
(* State                                                                   *)
(***************************************************************************)
NoInput == [op |-> "none", root |-> 0, notes |-> <<>>, str |-> <<>>]

NoOut == [op |-> "none", text |-> <<>>, notes |-> <<>>, set |-> <<>>]

Init ==
    /\ pc = "start"
    /\ input = NoInput
    /\ outcome = "none"
    /\ chord = new(from_byte(0))
    /\ calls = 0
    /\ out = NoOut

\* a constructor that cannot fail hands back its chord
Construct(op, r, c) ==
    /\ pc = "start"
    /\ pc' = "chord"
    /\ input' = [NoInput EXCEPT !.op = op, !.root = r]
    /\ outcome' = "value"
    /\ chord' = c
    /\ UNCHANGED <<calls, out>>

New(r) == Construct("new", r, new(r))

Major(r) == Construct("major", r, major(r))

Minor(r) == Construct("minor", r, minor(r))

Seventh(r) == Construct("seventh", r, seventh(r))

MinorSeventh(r) == Construct("minor_seventh", r, minor_seventh(r))

HalfDiminished(r) == Construct("half_diminished", r, half_diminished(r))

FromMidi(r, notes) ==
    /\ pc = "start"
    /\ input' = [NoInput EXCEPT !.op = "from_midi", !.root = r, !.notes = notes]
    /\ LET res == from_midi(r, notes)
       IN  IF res = None
           THEN /\ pc' = "failed"
                /\ outcome' = "None"
                /\ UNCHANGED chord
           ELSE /\ pc' = "chord"
                /\ outcome' = "Some"
                /\ chord' = res[1]
    /\ UNCHANGED <<calls, out>>

FromIter(notes) ==
    /\ pc = "start"
    /\ pc' = "chord"
    /\ input' = [NoInput EXCEPT !.op = "from_iter", !.notes = notes]
    /\ outcome' = "value"
    /\ chord' = from_iter(notes)
    /\ UNCHANGED <<calls, out>>

FromStr(s) ==
    /\ pc = "start"
    /\ input' = [NoInput EXCEPT !.op = "from_str", !.str = s]
    /\ LET res == from_str(s)
       IN  IF res.tag = "Ok"
           THEN /\ pc' = "chord"
                /\ outcome' = "Ok"
                /\ chord' = res.chord
           ELSE /\ pc' = "failed"
                /\ outcome' = "panic"
                /\ UNCHANGED chord
    /\ UNCHANGED <<calls, out>>

\* a builder call takes the chord and hands back the changed one
Build(c) ==
    /\ pc = "chord"
    /\ calls < MaxBuild
    /\ calls' = calls + 1
    /\ chord' = c
    /\ out' = NoOut
    /\ UNCHANGED <<pc, input, outcome>>

Bass(n) == Build(bass(chord, n))

Inversion(n) == Build(inversion(chord, n))

AddInterval(i) == Build(interval(chord, i))

AddRoot == Build(root(chord))

MajorSeventh == Build(major_seventh(chord))

MajorNinth == Build(major_ninth(chord))

\* to_string borrows the chord
to_string ==
    /\ pc = "chord"
    /\ out' = [NoOut EXCEPT !.op = "to_string", !.text = fmt(chord)]
    /\ UNCHANGED <<pc, input, outcome, chord, calls>>

\* the consuming calls: `chord` keeps the value that was moved out
Intervals ==
    /\ pc = "chord"
    /\ pc' = "consumed"
    /\ out' = [NoOut EXCEPT !.op = "intervals", !.set = intervals(chord)]
    /\ UNCHANGED <<input, outcome, chord, calls>>

IntoIter ==
    /\ pc = "chord"
    /\ pc' = "consumed"
    /\ out' = [NoOut EXCEPT !.op = "into_iter", !.notes = Drain(into_iter(chord))]
    /\ UNCHANGED <<input, outcome, chord, calls>>

MidiNotes ==
    /\ pc = "chord"
    /\ pc' = "consumed"
    /\ out' = [NoOut EXCEPT !.op = "midi_notes", !.notes = Drain(midi_notes(chord))]
    /\ UNCHANGED <<input, outcome, chord, calls>>

\* the whole interface, on short inputs; the guards ahead of the quantifiers
\* repeat the actions' own and keep the input sets from being built in vain
Next ==
    \/ pc = "start" /\ \E r \in Roots : New(r)
    \/ pc = "start" /\ \E r \in Roots : Major(r)
    \/ pc = "start" /\ \E r \in Roots : Minor(r)
    \/ pc = "start" /\ \E r \in Roots : Seventh(r)
    \/ pc = "start" /\ \E r \in Roots : MinorSeventh(r)
    \/ pc = "start" /\ \E r \in Roots : HalfDiminished(r)
    \/ pc = "start" /\ \E r \in Roots, ns \in ShortNoteInputs : FromMidi(r, ns)
    \/ pc = "start" /\ \E ns \in ShortNoteInputs : FromIter(ns)
    \/ pc = "start" /\ \E s \in ShortStrInputs : FromStr(s)
    \/ pc = "chord" /\ \E n \in BassNotes : Bass(n)
    \/ pc = "chord" /\ \E n \in BassNotes : Inversion(n)
    \/ pc = "chord" /\ \E i \in NamedIntervals : AddInterval(i)
    \/ AddRoot
    \/ MajorSeventh
    \/ MajorNinth
    \/ to_string
    \/ Intervals
    \/ IntoIter
    \/ MidiNotes

Spec == Init /\ [][Next]_vars

\* from_str over every string of the input alphabet, and its rendering
ParseNext ==
    \/ pc = "start" /\ \E s \in StrInputs : FromStr(s)
    \/ to_string

ParseSpec == Init /\ [][ParseNext]_vars

\* from_midi over every lowest-first note sequence, and what is read back
MidiNext ==
    \/ pc = "start" /\ \E r \in Roots, ns \in NoteInputs : FromMidi(r, ns)
    \/ to_string
    \/ Intervals
    \/ IntoIter

MidiSpec == Init /\ [][MidiNext]_vars

(***************************************************************************)
(* Properties                                                              *)
(***************************************************************************)
HasToken(text, tok) == \E k \in 1..Len(text) : text[k] = tok

\* the semitones an accidental moves its natural by
AccShift(a) ==
    CASE a = <<>> -> 0
      [] a = <<"b">> -> -1
      [] a = <<"b", "b">> -> -2
      [] a = <<"#">> -> 1
      [] a = <<"#", "#">> -> 2

\* the note of octave 4 whose pitch is the natural l moved by the accidental a
NoteFour(l, a) == C4 + ((NaturalPitch(l) + AccShift(a) + 12) % 12)

\* C1: parsing a natural letter with any accidental, followed by nothing, "m",
\* "7" or "m7", returns Ok with exactly the chord the builder major, minor,
\* seventh or minor_seventh makes on that note of octave 4; "D##" is the major
\* chord on E4 and "Cm7" the minor seventh chord on C4.
C1_ParserAgreesWithBuilders ==
    input.op = "from_str" =>
        /\ \A l \in NaturalLetters, a \in Accidentals :
             LET n == NoteFour(l, a)
                 s == <<l>> \o a
             IN  /\ input.str = s => outcome = "Ok" /\ chord = major(n)
                 /\ input.str = s \o <<"m">> => outcome = "Ok" /\ chord = minor(n)
                 /\ input.str = s \o <<"7">> => outcome = "Ok" /\ chord = seventh(n)
                 /\ input.str = s \o <<"m", "7">> =>
                        outcome = "Ok" /\ chord = minor_seventh(n)
        /\ input.str = <<"D", "#", "#">> =>
               chord = Chord(64, None, FALSE, <<0, 4, 7>>)
        /\ input.str = <<"C", "m", "7">> =>
               chord = Chord(60, None, FALSE, <<0, 3, 7, 10>>)

\* "Cbbm7" has been parsed into the minor seventh chord on A#4
C1_Witness ==
    /\ input.op = "from_str"
    /\ input.str = <<"C", "b", "b", "m", "7">>
    /\ outcome = "Ok"
    /\ chord = Chord(70, None, FALSE, <<0, 3, 7, 10>>)

\* t is a sequence of complete "b5" and "7" tokens
RECURSIVE IsModifiers(_)
IsModifiers(t) ==
    IF t = <<>> THEN TRUE
    ELSE IF t[1] = "7" THEN IsModifiers(Tail(t))
    ELSE IF Len(t) >= 2 /\ t[1] = "b" /\ t[2] = "5"
         THEN IsModifiers(SubSeq(t, 3, Len(t)))
    ELSE FALSE

\* s reads as letter, optional accidental, optional "m", complete modifiers
InGrammar(s) ==
    /\ s # <<>>
    /\ s[1] \in NaturalLetters
    /\ \E a \in Accidentals, m \in {<<>>, <<"m">>} :
         LET head == <<s[1]>> \o a \o m
         IN  /\ Len(head) <= Len(s)
             /\ SubSeq(s, 1, Len(head)) = head
             /\ IsModifiers(SubSeq(s, Len(head) + 1, Len(s)))

\* C2: a string whose characters after the optional accidental and optional
\* "m" are not a sequence of complete "b5" and "7" tokens is never parsed
\* into Ok with a chord.
C2_NoMalformedAccepted ==
    (input.op = "from_str" /\ ~InGrammar(input.str)) => outcome # "Ok"

\* C3: for every natural letter L, parsing L followed by "b5" succeeds with
\* the natural L of octave 4 as root and TRITONE among the intervals.
C3_FlatFiveAfterRoot ==
    \A l \in NaturalLetters :
        (input.op = "from_str" /\ input.str = <<l, "b", "5">>) =>
            /\ outcome = "Ok"
            /\ chord.root = C4 + NaturalPitch(l)
            /\ contains(chord.intervals, TRITONE)

StrictlyAscending(ns) == \A k \in 1..(Len(ns) - 1) : ns[k] < ns[k + 1]

\* C4: for every root and every non-empty strictly ascending note sequence,
\* from_midi returns Some(chord) and chord.into_iter() yields exactly the
\* notes given, in order, whether or not the first note is the root.
C4_InferThenIterateIsIdentity ==
    (input.op = "from_midi" /\ input.notes # <<>> /\ StrictlyAscending(input.notes)) =>
        /\ outcome = "Some"
        /\ out.op = "into_iter" => out.notes = input.notes

\* E3 G3 C4 under the root C4 has been inferred and iterated
C4_Witness ==
    /\ input.op = "from_midi"
    /\ input.root = 60
    /\ input.notes = <<52, 55, 60>>
    /\ out.op = "into_iter"
    /\ out.notes = <<52, 55, 60>>

C6_FirstInversionShowsRootContent ==
    (/\ input.op = "from_midi"
     /\ input.notes = <<input.root - 8, input.root - 5, input.root>>) =>
        /\ out.op = "intervals" =>
               contains(out.set, MAJOR_THIRD) /\ contains(out.set, PERFECT_FIFTH)
        /\ out.op = "to_string" =>
               out.text = <<NoteName(input.root), "/", NoteName(input.root - 8)>>

\* C7: in every chord reached by a constructor and builder calls, a bass
\* other than the root comes with is_inversion set, and no bass comes with
\* is_inversion unset.
C7_BassInversionConsistent ==
    pc \in {"chord", "consumed"} =>
        /\ (chord.bass # None /\ chord.bass # Some(chord.root)) => chord.is_inversion
        /\ chord.bass = None => ~chord.is_inversion

\* the semitone distances from the root of the notes a chord stores
RootRelative(c) ==
    LET base == unwrap_or(c.bass, c.root)
    IN  {IF base + c.intervals[k] >= c.root
         THEN base + c.intervals[k] - c.root
         ELSE c.root - (base + c.intervals[k]) : k \in 1..Len(c.intervals)}

\* C8: the symbol ends with "(no root)", before any "(no5)", exactly when
\* UNISON is missing from the root-relative intervals; it holds "(no5)"
\* exactly when both PERFECT_FIFTH and TRITONE are missing; with TRITONE
\* present "b5" is written and "(no5)" is not.
C8_MissingToneMarkers ==
    out.op = "to_string" =>
        LET rel == RootRelative(chord)
            t == out.text
            body == IF t[Len(t)] = "(no5)" THEN SubSeq(t, 1, Len(t) - 1) ELSE t
            derived == intervals(chord)
        IN  /\ {derived[k] : k \in 1..Len(derived)} = rel
            /\ StrictlyAscending(derived)
            /\ body[Len(body)] = "(no root)" <=> UNISON \notin rel
            /\ ~HasToken(SubSeq(body, 1, Len(body) - 1), "(no root)")
            /\ HasToken(t, "(no5)") <=> (PERFECT_FIFTH \notin rel /\ TRITONE \notin rel)
            /\ TRITONE \in rel => HasToken(t, "b5") /\ ~HasToken(t, "(no5)")

\* a chord under a bass was rendered with "b5" and "(no root)" and no "(no5)"
C8_Witness ==
    /\ out.op = "to_string"
    /\ chord.bass # None
    /\ HasToken(out.text, "b5")
    /\ HasToken(out.text, "(no root)")
    /\ ~HasToken(out.text, "(no5)")

\* C9 as stated: whenever the interval set is not empty, the first note of
\* the consuming iteration is the bass if there is one and the root
\* otherwise.
C9_FirstIsBassOrRoot ==
    (out.op \in {"into_iter", "midi_notes"} /\ chord.intervals # <<>>) =>
        out.notes[1] = unwrap_or(chord.bass, chord.root)

\* C9: whenever the stored interval set holds UNISON, the first note of the
\* consuming iteration is the bass if there is one and the root otherwise,
\* and no later note is lower; without UNISON the first note is the bass or
\* root moved up by the least stored interval.
C9_FirstIsBassOrRootGivenUnison ==
    (out.op \in {"into_iter", "midi_notes"} /\ chord.intervals # <<>>) =>
        /\ contains(chord.intervals, UNISON) =>
               out.notes[1] = unwrap_or(chord.bass, chord.root)
        /\ out.notes[1] = unwrap_or(chord.bass, chord.root) + chord.intervals[1]
        /\ \A k \in 1..Len(out.notes) : out.notes[k] >= out.notes[1]

\* a chord with UNISON, put over a bass other than its root, was iterated
C9_Witness ==
    /\ out.op = "into_iter"
    /\ calls > 0
    /\ chord.bass # None
    /\ chord.bass # Some(chord.root)
    /\ contains(chord.intervals, UNISON)
    /\ out.notes[1] = chord.bass[1]

RootSounds == \E k \in 1..Len(input.notes) : input.notes[k] = input.root

\* C10 as stated: the chord from_midi returns always has UNISON in
\* intervals(), and its symbol never holds "(no root)".
C10_NoRootUnreachable ==
    (input.op = "from_midi" /\ outcome = "Some") =>
        /\ out.op = "intervals" => contains(out.set, UNISON)
        /\ out.op = "to_string" => ~HasToken(out.text, "(no root)")

\* C10: the chord from_midi returns has UNISON in intervals(), and a symbol
\* without "(no root)", exactly when the root is one of the notes given.
C10_NoRootIffRootSilent ==
    (input.op = "from_midi" /\ outcome = "Some") =>
        /\ contains(chord.intervals, UNISON)
        /\ out.op = "intervals" => (contains(out.set, UNISON) <=> RootSounds)
        /\ out.op = "to_string" => (HasToken(out.text, "(no root)") <=> ~RootSounds)

\* E3 G3 under the root C4 was inferred and rendered with "(no root)"
C10_Witness ==
    /\ input.op = "from_midi"
    /\ input.root = 60
    /\ input.notes = <<52, 55>>
    /\ out.op = "to_string"
    /\ HasToken(out.text, "(no root)")

====
